---- MODULE Spec2Model ----
(***************************************************************************)
(* RedditArchiver: job orchestration, status polling, OAuth callback and   *)
(* the three periodic maintenance tasks (src/app.py, src/controllers.py,   *)
(* src/config.py).  The modules auth, models, utils and downloader are     *)
(* imported by the sources but are not part of them; their operators below *)
(* follow the collaborator contracts of the specification.                 *)
(***************************************************************************)
EXTENDS Integers, Sequences, FiniteSets, TLC

(* ---------------------------------------------------------------------- *)
(* Values                                                                 *)
(* ---------------------------------------------------------------------- *)

\* Python None for an integer-valued slot and for a string-valued slot.
None == 0 - 1
NoneStr == "None"

\* Bounds of the model.
MaxSeconds == 2
MaxDays == 1
MaxQuarters == 1
MaxSlashes == 3

\* Program constants.
DefaultAverage == 30
Retention == 86400
Day == Retention
Quarter == 90 * Day

Cookies == {"c1", "c2"}
JobIds == {"j1", "j2"}
RefreshToken == "rt"

\* What a user may type into the submission field.
SubmissionInputs ==
    {"", "https://example.com/page", "abc 123!", "abc123",
     "https://www.reddit.com/r/x/comments/abc123/title/"}

\* The authorization codes a callback may carry ("" is an absent code).
Codes == {"", "good", "expired"}

\* Reply counts the Archiver may discover, and the averages (in tenths of a
\* reply per second) the Datastore may compute from its history.
ReplyCounts == {45, 330, 1950}
DatastoreAverages == {5, 150}

\* Values config['app']['url'] may hold (NoneStr: the key is missing).
BaseUrls ==
    {"https://a.b", "https://a.b/", "https://a.b///", "https://a.b/c/",
     " https://a.b/ ", "https://", "http://a.b", "http://a.b//", "http://",
     "ftp://a.b/", "httpx://a.b", "a.b", "", NoneStr}

FailureReasons == {"SUBMISSION_NOT_FOUND", "BAD_AUTHENTICATION", "UNKNOWN"}
Terminal == {"success", "failure", "notfound"}

VARIABLES
    tokens,     \* Datastore: cookie -> its refresh token and when it was last used
    jobs,       \* Datastore: job id -> Job record, for the ids that have a row
    workers,    \* started worker threads: job id -> its token argument, alive or not
    files,      \* output directory: job id -> mtime of its artifact (None: no file)
    average,    \* config['runtime']['average']
    now,        \* wall clock, seconds
    poll,       \* the GetStatus call in flight
    recal,      \* the throughput recalibration task
    sweep,      \* the retention sweep task and its local variables
    seen,       \* per job id, the last answer GetStatus gave
    resp        \* the last response any handler produced

vars == <<tokens, jobs, workers, files, average, now, poll, recal, sweep,
          seen, resp>>

(* ---------------------------------------------------------------------- *)
(* Pure functions                                                         *)
(* ---------------------------------------------------------------------- *)

\* utils.extract_id: the submission identifier in the input, or None.
extract_id(submission) ==
    IF submission \in {"abc123", "https://www.reddit.com/r/x/comments/abc123/title/"}
    THEN "abc123"
    ELSE NoneStr

\* controllers.error_message: the message a failure reason maps to.
error_message(reason) ==
    CASE reason = "SUBMISSION_NOT_FOUND" -> "MSG_SUBMISSION_NOT_FOUND"
      [] reason = "BAD_AUTHENTICATION"   -> "MSG_BAD_AUTHENTICATION"
      [] reason = "BAD_URL"              -> "MSG_BAD_URL"
      [] reason = "BAD_PERMISSIONS"      -> "MSG_SERVER_ISSUE"
      [] reason = "UNKNOWN"              -> "MSG_SERVER_ISSUE"
      [] OTHER                           -> NoneStr

\* Python int(): truncation toward zero of n/d, d > 0.
Trunc(n, d) == IF n >= 0 THEN n \div d ELSE -((-n) \div d)

Eta(kind, m, s) == [kind |-> kind, m |-> m, s |-> s]

\* controllers.calculate_estimated_time at wall-clock time t.
calculate_estimated_time(start_time, nb_replies, avg, t) ==
    IF nb_replies = None THEN Eta("none", 0, 0)
    ELSE IF avg = None THEN Eta("TypeError", 0, 0)
    ELSE IF avg = 0 THEN Eta("ZeroDivisionError", 0, 0)
    ELSE LET elapsed == t - start_time
             estimated_remaining == Trunc(nb_replies - elapsed * avg, avg)
         IN  IF estimated_remaining < 0 THEN Eta("late", 0, 0)
             ELSE IF estimated_remaining < 10 THEN Eta("lt10", 0, 0)
             ELSE IF estimated_remaining < 60 THEN Eta("secs", 0, estimated_remaining)
             ELSE Eta("mins", estimated_remaining \div 60, estimated_remaining % 60)

\* The status code controllers.status picks for a job status.
status_code(status) ==
    CASE status = "ongoing"  -> 409
      [] status = "failure"  -> 404
      [] status = "success"  -> 200
      [] status = "notfound" -> 404
      [] OTHER               -> 500

\* A run of n slashes.
RECURSIVE SlashRun(_)
SlashRun(n) == IF n = 0 THEN "" ELSE "/" \o SlashRun(n - 1)

\* str.startswith and str.endswith
startswith(s, prefix) ==
    Len(s) >= Len(prefix) /\ SubSeq(s, 1, Len(prefix)) = prefix

endswith(s, suffix) ==
    Len(s) >= Len(suffix) /\ SubSeq(s, Len(s) - Len(suffix) + 1, Len(s)) = suffix

\* str.strip, for the blank
RECURSIVE strip(_)
strip(s) ==
    IF startswith(s, " ") THEN strip(SubSeq(s, 2, Len(s)))
    ELSE IF endswith(s, " ") THEN strip(SubSeq(s, 1, Len(s) - 1))
    ELSE s

\* The loop of get_oauth_redirect_uri that removes the trailing slashes.
RECURSIVE remove_trailing_slashes(_)
remove_trailing_slashes(app_url) ==
    IF endswith(app_url, "/")
    THEN remove_trailing_slashes(SubSeq(app_url, 1, Len(app_url) - 1))
    ELSE app_url

\* get_oauth_redirect_uri removing one trailing slash only.
get_oauth_redirect_uri_one_slash(url) ==
    IF url = NoneStr THEN "ValueError"
    ELSE LET app_url == strip(url)
             one_less(u) == IF endswith(u, "/") THEN SubSeq(u, 1, Len(u) - 1) ELSE u
         IN  IF startswith(app_url, "https://")
             THEN one_less(app_url) \o "/token"
             ELSE IF startswith(app_url, "http://")
             THEN one_less("https://" \o SubSeq(app_url, 8, Len(app_url))) \o "/token"
             ELSE "ValueError"

\* controllers.get_oauth_redirect_uri for config['app']['url'] = url: the
\* redirect URI, or the ValueError it raises.
get_oauth_redirect_uri(url) ==
    IF url = NoneStr THEN "ValueError"
    ELSE LET app_url == strip(url)
         IN  IF startswith(app_url, "https://")
             THEN remove_trailing_slashes(app_url) \o "/token"
             ELSE IF startswith(app_url, "http://")
             THEN remove_trailing_slashes("https://" \o SubSeq(app_url, 8, Len(app_url)))
                      \o "/token"
             ELSE "ValueError"

(* ---------------------------------------------------------------------- *)
(* Datastore (models) and session cookie (auth)                           *)
(* ---------------------------------------------------------------------- *)

Job(status, reason, started, replies, filename, requestor) ==
    [status |-> status, failure_reason |-> reason, started_at |-> started,
     nb_replies |-> replies, filename |-> filename, requestor |-> requestor]

NotFoundJob == Job("notfound", NoneStr, None, None, NoneStr, NoneStr)

\* models.read_job: the row of the id, or the "not found" answer.
read_job(id) ==
    IF id \in DOMAIN jobs THEN jobs[id] ELSE NotFoundJob

\* A row of the tokens table; a cookie without a row reads as None.
Session(token, last_used) == [token |-> token, last_used |-> last_used]

NoSession == Session(NoneStr, 0)

\* models.read_token: the refresh token stored for the cookie, or None.
read_token(cookie) == tokens[cookie].token

\* models.calculate_average_eta: the successful jobs it can average over.
History == {id \in DOMAIN jobs : jobs[id].status = "success" /\ jobs[id].nb_replies # None}

\* What a handler answered: the endpoint, the HTTP code, what the body says,
\* the job id it names, and how many times it called get_refresh_token.
Response(op, code, detail, job, calls) ==
    [op |-> op, code |-> code, detail |-> detail, job |-> job, calls |-> calls]

Payload(code, status, error, eta, avg) ==
    [code |-> code, status |-> status, error |-> error, eta |-> eta, avg |-> avg]

Unseen == Payload(0, NoneStr, NoneStr, Eta("none", 0, 0), None)

\* The GetStatus call's local variables: the job it read and, for the claims
\* about concurrent recalibration, the values the shared average has held
\* since the call began.  They keep their last values once it has answered.
IdlePoll == [pc |-> "idle", id |-> NoneStr, job |-> NotFoundJob, held |-> {}]

\* The sweep's local variables; they keep their last values once it has ended
\* (pc "done") or an exception has ended it (pc "raised", at files[i]).
IdleSweep == [pc |-> "idle", now |-> 0, files |-> << >>, i |-> 1]

(* ---------------------------------------------------------------------- *)
(* Initial state                                                          *)
(* ---------------------------------------------------------------------- *)

Init ==
    /\ tokens = [c \in Cookies \cup {NoneStr} |-> NoSession]
    /\ jobs = [id \in {} |-> NotFoundJob]
    /\ workers = [id \in {} |-> [token |-> NoneStr, alive |-> FALSE]]
    /\ files = [id \in JobIds |-> None]
    /\ average = DefaultAverage
    /\ now = 0
    /\ poll = IdlePoll
    /\ recal = [pc |-> "idle", fetched |-> None]
    /\ sweep = IdleSweep
    /\ seen = [id \in JobIds |-> Unseen]
    /\ resp = Response("none", 0, NoneStr, NoneStr, 0)

(* ---------------------------------------------------------------------- *)
(* Request handlers (src/app.py, src/controllers.py)                      *)
(* ---------------------------------------------------------------------- *)

\* models.read_token marks the session as used.
touch(cookie) ==
    IF tokens[cookie].token = NoneStr THEN tokens
    ELSE [tokens EXCEPT ![cookie].last_used = now]

\* models.create_token
create_token(cookie, refresh_token) ==
    [tokens EXCEPT ![cookie] = Session(refresh_token, now)]

\* app.before_request_callback refusing, with 403, a client that
\* auth.is_client_allowed does not allow: the endpoint's handler never runs.
AccessDenied(op) ==
    /\ resp' = Response(op, 403, "Forbidden", NoneStr, 0)
    /\ UNCHANGED <<tokens, jobs, workers, files, average, now, poll, recal,
                   sweep, seen>>

\* GET /.  cookie is flask.g.cookie as auth.manage_cookie leaves it: the
\* request's own cookie, or a new one when the request has none.
Main(cookie) ==
    /\ tokens' = touch(cookie)
    /\ resp' = Response("main", 200,
                        IF read_token(cookie) = NoneStr
                        THEN "main_unauthenticated" ELSE "main_authenticated",
                        NoneStr, 0)
    /\ UNCHANGED <<jobs, workers, files, average, now, poll, recal, sweep, seen>>

\* controllers.get_refresh_token: the refresh token, or the exception raised;
\* accepted is whether the identity provider accepts a code that is good.
get_refresh_token(code, accepted) ==
    IF code = "" THEN "ValueError"
    ELSE IF code = "good" /\ accepted THEN RefreshToken
    ELSE "OAuthException"

\* Token without the comparison of state and cookie.
TokenNoStateCheck(cookieIn, state, code, accepted) ==
    LET refresh_token == get_refresh_token(code, accepted)
    IN  /\ IF refresh_token \in {"ValueError", "OAuthException"}
           THEN /\ resp' = Response("token", 400, "ExchangeFailed", NoneStr, 1)
                /\ UNCHANGED tokens
           ELSE /\ tokens' = create_token(state, refresh_token)
                /\ resp' = Response("token", 303, "redirect", NoneStr, 1)
        /\ UNCHANGED <<jobs, workers, files, average, now, poll, recal, sweep, seen>>

\* Token trying the exchange a second time when the first attempt failed, and
\* keeping the session's cookie authenticated with what the retry returns.
TokenRetriesExchange(cookieIn, state, code, accepted) ==
    IF state # cookieIn
    THEN /\ resp' = Response("token", 400, "AuthStateMismatch", NoneStr, 0)
         /\ UNCHANGED <<tokens, jobs, workers, files, average, now, poll,
                        recal, sweep, seen>>
    ELSE LET refresh_token == get_refresh_token(code, accepted)
             retried == get_refresh_token(code, TRUE)
         IN  /\ IF refresh_token \notin {"ValueError", "OAuthException"}
                THEN /\ tokens' = create_token(state, refresh_token)
                     /\ resp' = Response("token", 303, "redirect", NoneStr, 1)
                ELSE IF retried \notin {"ValueError", "OAuthException"}
                THEN /\ tokens' = create_token(state, retried)
                     /\ resp' = Response("token", 303, "redirect", NoneStr, 2)
                ELSE /\ resp' = Response("token", 400, "ExchangeFailed", NoneStr, 2)
                     /\ UNCHANGED tokens
             /\ UNCHANGED <<jobs, workers, files, average, now, poll, recal,
                            sweep, seen>>

\* Token forgetting the session's refresh token when the exchange fails.
TokenForgetsOnFailure(cookieIn, state, code, accepted) ==
    IF state # cookieIn
    THEN /\ resp' = Response("token", 400, "AuthStateMismatch", NoneStr, 0)
         /\ UNCHANGED <<tokens, jobs, workers, files, average, now, poll,
                        recal, sweep, seen>>
    ELSE LET refresh_token == get_refresh_token(code, accepted)
         IN  /\ IF refresh_token \in {"ValueError", "OAuthException"}
                THEN /\ resp' = Response("token", 400, "ExchangeFailed", NoneStr, 1)
                     /\ tokens' = [tokens EXCEPT ![state] = NoSession]
                ELSE /\ tokens' = create_token(state, refresh_token)
                     /\ resp' = Response("token", 303, "redirect", NoneStr, 1)
             /\ UNCHANGED <<jobs, workers, files, average, now, poll, recal,
                            sweep, seen>>

\* GET /token?state=..&code=.. from a request whose cookie is cookieIn
\* (NoneStr: the request carries no cookie, or no state parameter).
Token(cookieIn, state, code, accepted) ==
    IF state # cookieIn
    THEN /\ resp' = Response("token", 400, "AuthStateMismatch", NoneStr, 0)
         /\ UNCHANGED <<tokens, jobs, workers, files, average, now, poll,
                        recal, sweep, seen>>
    ELSE LET refresh_token == get_refresh_token(code, accepted)
         IN  /\ IF refresh_token \in {"ValueError", "OAuthException"}
                THEN /\ resp' = Response("token", 400, "ExchangeFailed", NoneStr, 1)
                     /\ UNCHANGED tokens
                ELSE /\ tokens' = create_token(state, refresh_token)
                     /\ resp' = Response("token", 303, "redirect", NoneStr, 1)
             /\ UNCHANGED <<jobs, workers, files, average, now, poll, recal,
                            sweep, seen>>

\* models.create_job refuses an id that already has a row.
job_exists(id) == id \in DOMAIN jobs

\* models.create_job
create_job(id, requestor) ==
    [i \in DOMAIN jobs \cup {id} |->
        IF i = id THEN Job("ongoing", NoneStr, now, None, NoneStr, requestor)
        ELSE jobs[i]]

\* threading.Thread(target=downloader.main, args=(.., token, job_id)).start()
start_worker(id, token) ==
    [i \in DOMAIN workers \cup {id} |->
        IF i = id THEN [token |-> token, alive |-> TRUE] ELSE workers[i]]

\* Request writing the Job record before it validates the submission.
RequestCreatesFirst(cookie, submission, job_id, started) ==
    LET token == read_token(cookie)
        submission_id == extract_id(submission)
    IN  /\ tokens' = touch(cookie)
        /\ IF job_exists(job_id)
           THEN /\ resp' = Response("request", 500, "IntegrityError", NoneStr, 0)
                /\ UNCHANGED <<jobs, workers>>
           ELSE /\ jobs' = create_job(job_id, cookie)
                /\ IF submission_id = NoneStr
                   THEN /\ resp' = Response("request", 200, error_message("BAD_URL"),
                                            NoneStr, 0)
                        /\ UNCHANGED workers
                   ELSE IF started
                   THEN /\ workers' = start_worker(job_id, token)
                        /\ resp' = Response("request", 200, "request", job_id, 0)
                   ELSE /\ resp' = Response("request", 500, "RuntimeError",
                                            NoneStr, 0)
                        /\ UNCHANGED workers
        /\ UNCHANGED <<files, average, now, poll, recal, sweep, seen>>

\* Request starting the worker and answering without writing the Job record.
RequestSkipsCreate(cookie, submission, job_id, started) ==
    LET token == read_token(cookie)
        submission_id == extract_id(submission)
    IN  /\ tokens' = touch(cookie)
        /\ IF submission_id = NoneStr
           THEN /\ resp' = Response("request", 200, error_message("BAD_URL"),
                                    NoneStr, 0)
                /\ UNCHANGED workers
           ELSE IF started
           THEN /\ workers' = start_worker(job_id, token)
                /\ resp' = Response("request", 200, "request", job_id, 0)
           ELSE /\ resp' = Response("request", 500, "RuntimeError", NoneStr, 0)
                /\ UNCHANGED workers
        /\ UNCHANGED <<jobs, files, average, now, poll, recal, sweep, seen>>

\* Request starting the worker before it writes the Job record.
RequestStartsFirst(cookie, submission, job_id, started) ==
    LET token == read_token(cookie)
        submission_id == extract_id(submission)
    IN  /\ tokens' = touch(cookie)
        /\ IF submission_id = NoneStr
           THEN /\ resp' = Response("request", 200, error_message("BAD_URL"),
                                    NoneStr, 0)
                /\ UNCHANGED <<jobs, workers>>
           ELSE IF ~started
           THEN /\ resp' = Response("request", 500, "RuntimeError", NoneStr, 0)
                /\ UNCHANGED <<jobs, workers>>
           ELSE /\ workers' = start_worker(job_id, token)
                /\ IF job_exists(job_id)
                   THEN /\ resp' = Response("request", 500, "IntegrityError",
                                            NoneStr, 0)
                        /\ UNCHANGED jobs
                   ELSE /\ jobs' = create_job(job_id, cookie)
                        /\ resp' = Response("request", 200, "request", job_id, 0)
        /\ UNCHANGED <<files, average, now, poll, recal, sweep, seen>>

\* POST /request.  cookie is flask.g.cookie, job_id what
\* secrets.token_urlsafe draws, started whether the thread could be started.
Request(cookie, submission, job_id, started) ==
    LET token == read_token(cookie)
        submission_id == extract_id(submission)
    IN  /\ tokens' = touch(cookie)
        /\ IF submission_id = NoneStr
           THEN /\ resp' = Response("request", 200, error_message("BAD_URL"),
                                    NoneStr, 0)
                /\ UNCHANGED <<jobs, workers>>
           ELSE IF job_exists(job_id)
           THEN /\ resp' = Response("request", 500, "IntegrityError", NoneStr, 0)
                /\ UNCHANGED <<jobs, workers>>
           ELSE /\ jobs' = create_job(job_id, cookie)
                /\ IF started
                   THEN /\ workers' = start_worker(job_id, token)
                        /\ resp' = Response("request", 200, "request", job_id, 0)
                   ELSE /\ resp' = Response("request", 500, "RuntimeError",
                                            NoneStr, 0)
                        /\ UNCHANGED workers
        /\ UNCHANGED <<files, average, now, poll, recal, sweep, seen>>

\* StatusBegin reading the session of the job's requester as the endpoints
\* that manage the cookie do, which marks that session as used.
StatusBeginTouches(job_id) ==
    /\ poll.pc # "eta"
    /\ poll' = [pc |-> "eta", id |-> job_id, job |-> read_job(job_id),
                held |-> {average}]
    /\ tokens' = touch(read_job(job_id).requestor)
    /\ UNCHANGED <<jobs, workers, files, average, now, recal, sweep, seen, resp>>

\* GET /status/<job_id>, up to the Datastore read of controllers.status.
StatusBegin(job_id) ==
    /\ poll.pc # "eta"
    /\ poll' = [pc |-> "eta", id |-> job_id, job |-> read_job(job_id),
                held |-> {average}]
    /\ UNCHANGED <<tokens, jobs, workers, files, average, now, recal, sweep,
                   seen, resp>>

\* status answering, for an id the Datastore does not know, that the job is
\* still being processed.
status_unknown_is_pending(job, avg, t) ==
    LET eta == calculate_estimated_time(job.started_at, job.nb_replies, avg, t)
    IN  IF eta.kind \in {"TypeError", "ZeroDivisionError"}
        THEN Payload(500, eta.kind, NoneStr, Eta("none", 0, 0), avg)
        ELSE IF job.status = "notfound"
        THEN Payload(409, "ongoing", NoneStr, eta, avg)
        ELSE Payload(status_code(job.status), job.status,
                     error_message(job.failure_reason), eta, avg)

\* The payload and status code controllers.status builds from the job it read.
status(job, avg, t) ==
    LET eta == calculate_estimated_time(job.started_at, job.nb_replies, avg, t)
    IN  IF eta.kind \in {"TypeError", "ZeroDivisionError"}
        THEN Payload(500, eta.kind, NoneStr, Eta("none", 0, 0), avg)
        ELSE Payload(status_code(job.status), job.status,
                     error_message(job.failure_reason), eta, avg)

\* StatusEnd giving up on a job that runs longer than estimated.
StatusEndTimesOut ==
    /\ poll.pc = "eta"
    /\ LET answer == status(poll.job, average, now)
       IN  /\ seen' = [seen EXCEPT ![poll.id] = answer]
           /\ resp' = Response("status", answer.code, answer.status, poll.id, 0)
           /\ jobs' = IF answer.eta.kind = "late" /\ answer.status = "ongoing"
                      THEN [jobs EXCEPT ![poll.id].status = "failure"]
                      ELSE jobs
    /\ poll' = [poll EXCEPT !.pc = "done"]
    /\ UNCHANGED <<tokens, workers, files, average, now, recal, sweep>>

\* GET /status/<job_id>, from the read of the shared average to the answer.
StatusEnd ==
    /\ poll.pc = "eta"
    /\ LET answer == status(poll.job, average, now)
       IN  /\ seen' = [seen EXCEPT ![poll.id] = answer]
           /\ resp' = Response("status", answer.code, answer.status, poll.id, 0)
    /\ poll' = [poll EXCEPT !.pc = "done"]
    /\ UNCHANGED <<tokens, jobs, workers, files, average, now, recal, sweep>>

\* controllers.get_filename
get_filename(job_id) == read_job(job_id).filename

\* GET /download/<job_id>
Download(job_id) ==
    LET filename == get_filename(job_id)
    IN  /\ resp' = IF filename = NoneStr
                   THEN Response("download", 500, "TypeError", job_id, 0)
                   ELSE IF files[filename] = None
                   THEN Response("download", 404, "NotFound", job_id, 0)
                   ELSE Response("download", 200, filename, job_id, 0)
        /\ UNCHANGED <<tokens, jobs, workers, files, average, now, poll,
                       recal, sweep, seen>>

\* controllers.get_oauth_redirect_uri called, as craft_authentication_url and
\* get_refresh_token call it, under a configuration whose base URL is url.
RedirectUri(url) ==
    LET redirect_uri == get_oauth_redirect_uri(url)
    IN  /\ resp' = Response("redirect_uri",
                            IF redirect_uri = "ValueError" THEN 500 ELSE 200,
                            redirect_uri, NoneStr, 0)
        /\ UNCHANGED <<tokens, jobs, workers, files, average, now, poll,
                       recal, sweep, seen>>

(* ---------------------------------------------------------------------- *)
(* The Archiver worker (downloader.main), one thread per job              *)
(* ---------------------------------------------------------------------- *)

Alive(id) == id \in DOMAIN workers /\ workers[id].alive

\* The worker learns the size of the thread and records it.
WorkerCount(id, n) ==
    /\ Alive(id)
    /\ jobs[id].nb_replies = None
    /\ jobs' = [jobs EXCEPT ![id].nb_replies = n]
    /\ UNCHANGED <<tokens, workers, files, average, now, poll, recal, sweep,
                   seen, resp>>

\* The worker ends: it writes its one terminal status, and on success the
\* artifact and its name.
WorkerFinish(id, outcome, reason) ==
    /\ Alive(id)
    /\ jobs[id].status = "ongoing"
    /\ jobs' = [jobs EXCEPT
                  ![id].status = outcome,
                  ![id].failure_reason = IF outcome = "failure" THEN reason ELSE NoneStr,
                  ![id].filename = IF outcome = "success" THEN id ELSE NoneStr]
    /\ files' = IF outcome = "success" THEN [files EXCEPT ![id] = now] ELSE files
    /\ workers' = [workers EXCEPT ![id].alive = FALSE]
    /\ UNCHANGED <<tokens, average, now, poll, recal, sweep, seen, resp>>

(* ---------------------------------------------------------------------- *)
(* Periodic tasks (scheduler jobs of src/app.py)                          *)
(* ---------------------------------------------------------------------- *)

\* The orders os.listdir may return the files in.
Listings(S) == {q \in [1..Cardinality(S) -> S] :
                   \A i, j \in DOMAIN q : i # j => q[i] # q[j]}

\* controllers.cleanup_downloads, up to the directory listing.
SweepBegin(listing) ==
    /\ sweep.pc # "loop"
    /\ sweep' = [pc |-> IF listing = << >> THEN "done" ELSE "loop",
                 now |-> now, files |-> listing, i |-> 1]
    /\ UNCHANGED <<tokens, jobs, workers, files, average, now, poll, recal,
                   seen, resp>>

\* controllers.cleanup_downloads, one turn of its loop: statOk and removeOk
\* are whether os.path.getmtime and os.remove succeed on the file.
SweepFile(statOk, removeOk) ==
    /\ sweep.pc = "loop"
    /\ LET file == sweep.files[sweep.i]
           raise == sweep' = [sweep EXCEPT !.pc = "raised"]
           next == sweep' = [sweep EXCEPT
                               !.i = sweep.i + 1,
                               !.pc = IF sweep.i = Len(sweep.files)
                                      THEN "done" ELSE "loop"]
       IN  IF files[file] = None \/ ~statOk
           THEN raise /\ UNCHANGED files
           ELSE IF (sweep.now - files[file]) > Retention
           THEN IF removeOk
                THEN files' = [files EXCEPT ![file] = None] /\ next
                ELSE raise /\ UNCHANGED files
           ELSE next /\ UNCHANGED files
    /\ UNCHANGED <<tokens, jobs, workers, average, now, poll, recal, seen, resp>>

\* controllers.cleanup_sessions: models.cleanup_sessions drops the sessions
\* unused for three months.
CleanupSessions ==
    /\ tokens' = [c \in DOMAIN tokens |->
                    IF tokens[c].token # NoneStr /\ now - tokens[c].last_used > Quarter
                    THEN NoSession ELSE tokens[c]]
    /\ UNCHANGED <<jobs, workers, files, average, now, poll, recal, sweep,
                   seen, resp>>

\* controllers.calculate_average_eta, the Datastore query: fetched is the
\* average models.calculate_average_eta returns, in tenths.
RecalBegin(fetched) ==
    /\ recal.pc # "write"
    /\ fetched \in (IF History = {} THEN {None} ELSE DatastoreAverages)
    /\ recal' = [pc |-> "write", fetched |-> fetched]
    /\ UNCHANGED <<tokens, jobs, workers, files, average, now, poll, sweep,
                   seen, resp>>

\* RecalWrite storing what the Datastore returned, None included.
RecalWriteKeepsNone ==
    /\ recal.pc = "write"
    /\ average' = IF recal.fetched = None THEN None ELSE recal.fetched \div 10
    /\ recal' = [recal EXCEPT !.pc = "done"]
    /\ poll' = IF poll.pc = "eta"
               THEN [poll EXCEPT !.held = poll.held \cup {average'}]
               ELSE poll
    /\ UNCHANGED <<tokens, jobs, workers, files, now, sweep, seen, resp>>

\* RecalWrite in two steps: it clears the shared scalar, then stores the value.
RecalWriteClearsFirst ==
    /\ recal.pc = "write"
    /\ IF average # None
       THEN average' = None /\ UNCHANGED recal
       ELSE /\ average' = IF recal.fetched = None THEN DefaultAverage
                          ELSE recal.fetched \div 10
            /\ recal' = [recal EXCEPT !.pc = "done"]
    /\ poll' = IF poll.pc = "eta"
               THEN [poll EXCEPT !.held = poll.held \cup {average'}]
               ELSE poll
    /\ UNCHANGED <<tokens, jobs, workers, files, now, sweep, seen, resp>>

\* controllers.calculate_average_eta, the assignment to the shared scalar.
RecalWrite ==
    /\ recal.pc = "write"
    /\ average' = IF recal.fetched = None THEN DefaultAverage
                  ELSE recal.fetched \div 10
    /\ recal' = [recal EXCEPT !.pc = "done"]
    /\ poll' = IF poll.pc = "eta"
               THEN [poll EXCEPT !.held = poll.held \cup {average'}]
               ELSE poll
    /\ UNCHANGED <<tokens, jobs, workers, files, now, sweep, seen, resp>>

(* ---------------------------------------------------------------------- *)
(* Time                                                                   *)
(* ---------------------------------------------------------------------- *)

Tick(d) ==
    /\ now' = now + d
    /\ UNCHANGED <<tokens, jobs, workers, files, average, poll, recal, sweep,
                   seen, resp>>

TickSecond == (now % Day) < MaxSeconds /\ Tick(1)

TickDay == ((now % Quarter) \div Day) < MaxDays /\ Tick(Day)

TickQuarter == (now \div Quarter) < MaxQuarters /\ Tick(Quarter)

(* ---------------------------------------------------------------------- *)
(* Specification                                                          *)
(* ---------------------------------------------------------------------- *)

RequestCookies == Cookies \cup {NoneStr}

Endpoints == {"main", "token", "request", "status", "download"}

\* Every operation of the core, each with a few inputs.
Next ==
    \/ AccessDenied("main")
    \/ Main("c1")
    \/ \E s \in Cookies : Token("c1", s, "good", TRUE)
    \/ \E u \in {"", "abc123"}, st \in BOOLEAN : Request("c1", u, "j1", st)
    \/ StatusBegin("j1")
    \/ StatusEnd
    \/ Download("j1")
    \/ WorkerCount("j1", 45)
    \/ \E o \in {"success", "failure"} : WorkerFinish("j1", o, "UNKNOWN")
    \/ \E q \in Listings({id \in JobIds : files[id] # None}) : SweepBegin(q)
    \/ \E ro \in BOOLEAN : SweepFile(TRUE, ro)
    \/ CleanupSessions
    \/ \E v \in {150, None} : RecalBegin(v)
    \/ RecalWrite
    \/ TickDay

Spec == Init /\ [][Next]_vars

\* The OAuth callback with every input it can carry, against the sessions.
CallbackNext ==
    \/ AccessDenied("token")
    \/ \E c \in Cookies : Main(c)
    \/ \E c \in RequestCookies, s \in RequestCookies, k \in Codes, ok \in BOOLEAN :
          Token(c, s, k, ok)
    \/ TickSecond

CallbackSpec == Init /\ [][CallbackNext]_vars

\* Job creation with every input of POST /request, against the workers.
CreateNext ==
    \/ AccessDenied("request")
    \/ Token("c1", "c1", "good", TRUE)
    \/ \E c \in Cookies, u \in SubmissionInputs, id \in JobIds, st \in BOOLEAN :
          Request(c, u, id, st)
    \/ \E id \in JobIds, o \in Terminal : WorkerFinish(id, o, "UNKNOWN")

CreateSpec == Init /\ [][CreateNext]_vars

\* Status polling of one job against its worker, the recalibration and time.
StatusNext ==
    \/ \E st \in BOOLEAN : Request("c1", "abc123", "j1", st)
    \/ \E id \in JobIds : StatusBegin(id)
    \/ StatusEnd
    \/ \E id \in JobIds, n \in ReplyCounts : WorkerCount(id, n)
    \/ \E id \in JobIds, o \in Terminal, r \in FailureReasons : WorkerFinish(id, o, r)
    \/ \E v \in DatastoreAverages \cup {None} : RecalBegin(v)
    \/ RecalWrite
    \/ TickSecond

StatusSpec == Init /\ [][StatusNext]_vars

\* The retention sweep against the workers that write the artifacts.
SweepNext ==
    \/ \E id \in JobIds, st \in BOOLEAN : Request("c1", "abc123", id, st)
    \/ \E id \in JobIds, o \in Terminal : WorkerFinish(id, o, "UNKNOWN")
    \/ \E q \in Listings({id \in JobIds : files[id] # None}) : SweepBegin(q)
    \/ \E so \in BOOLEAN, ro \in BOOLEAN : SweepFile(so, ro)
    \/ \E id \in JobIds : Download(id)
    \/ TickSecond
    \/ TickDay

SweepSpec == Init /\ [][SweepNext]_vars

\* Job creation and the workers, every started thread being scheduled until
\* it ends.
LiveNext ==
    \/ \E c \in Cookies, id \in JobIds, st \in BOOLEAN : Request(c, "abc123", id, st)
    \/ \E id \in JobIds, n \in ReplyCounts : WorkerCount(id, n)
    \/ \E id \in JobIds, o \in Terminal : WorkerFinish(id, o, "UNKNOWN")
    \/ TickSecond

LiveSpec ==
    /\ Init
    /\ [][LiveNext]_vars
    /\ \A id \in JobIds : WF_vars(\E o \in Terminal : WorkerFinish(id, o, "UNKNOWN"))

\* The redirect URI under every configured base URL, against the sessions
\* that ask for it.
RedirectNext ==
    \/ \E c \in Cookies : Main(c)
    \/ \E c \in Cookies, k \in Codes : Token(c, c, k, TRUE)
    \/ \E u \in BaseUrls : RedirectUri(u)
    \/ TickSecond

RedirectSpec == Init /\ [][RedirectNext]_vars

\* The sessions over the months: their use, the callbacks and the expiry task.
SessionNext ==
    \/ \E c \in Cookies : Main(c)
    \/ \E c \in Cookies, k \in Codes, ok \in BOOLEAN : Token(c, c, k, ok)
    \/ \E c \in Cookies, id \in JobIds : Request(c, "abc123", id, TRUE)
    \/ CleanupSessions
    \/ TickDay
    \/ TickQuarter

SessionSpec == Init /\ [][SessionNext]_vars

(* ---------------------------------------------------------------------- *)
(* Claims                                                                 *)
(* ---------------------------------------------------------------------- *)

\* C1: a POST /request from a session that has no refresh token writes no
\* Job record and starts no worker.
C1_UnauthenticatedCreatesNothing ==
    [][resp'.op = "request" =>
          \A c \in Cookies, u \in SubmissionInputs, id \in JobIds, st \in BOOLEAN :
              (read_token(c) = NoneStr /\ Request(c, u, id, st))
                  => (jobs' = jobs /\ workers' = workers)]_vars

\* C2: a callback whose state differs from the request's cookie is answered
\* 400 AuthStateMismatch, makes no call of get_refresh_token and stores no
\* refresh token for any session.
C2_StateMismatchRejected ==
    [][resp'.op = "token" =>
          \A c \in RequestCookies, s \in RequestCookies, k \in Codes, ok \in BOOLEAN :
              (s # c /\ Token(c, s, k, ok))
                  => /\ resp'.code = 400
                     /\ resp'.detail = "AuthStateMismatch"
                     /\ resp'.calls = 0
                     /\ tokens' = tokens]_vars

\* C2 witness: a mismatching callback has been refused while the provider
\* would have granted a token and another session is already authenticated.
C2_Witness ==
    /\ resp = Response("token", 400, "AuthStateMismatch", NoneStr, 0)
    /\ \E c \in Cookies : read_token(c) # NoneStr
    /\ \E c \in Cookies : read_token(c) = NoneStr

\* C3: once GetStatus has answered the terminal status of a job's record,
\* every later GetStatus for that job (one that reads the record after it
\* became terminal) answers the same code and the same payload (status,
\* error_message, eta).  Stated for the statuses success and failure, which
\* only a stored record can have.
C3_TerminalAnswerStable ==
    [][\A id \in JobIds :
          (/\ id \in DOMAIN jobs
           /\ seen[id].status \in {"success", "failure"}
           /\ seen[id].status = jobs[id].status
           /\ (poll.pc = "eta" /\ poll.id = id) => poll.job = jobs[id])
              => /\ seen'[id].code = seen[id].code
                 /\ seen'[id].status = seen[id].status
                 /\ seen'[id].error = seen[id].error
                 /\ seen'[id].eta = seen[id].eta]_vars

\* C4: a POST /request whose submission yields no identifier is answered with
\* the BAD_URL error and leaves the Job records and the workers as they were.
C4_InvalidInputCreatesNothing ==
    [][resp'.op = "request" =>
          \A c \in Cookies, u \in SubmissionInputs, id \in JobIds, st \in BOOLEAN :
              (extract_id(u) = NoneStr /\ Request(c, u, id, st))
                  => /\ resp'.detail = error_message("BAD_URL")
                     /\ resp'.job = NoneStr
                     /\ jobs' = jobs
                     /\ workers' = workers]_vars

\* C4 witness: an invalid submission has been refused while a job with a
\* running worker exists.
C4_Witness ==
    /\ resp = Response("request", 200, error_message("BAD_URL"), NoneStr, 0)
    /\ \E id \in DOMAIN jobs : Alive(id)

\* C5: a POST /request that answers a job id answers one that no earlier
\* call was given, stores its Job record with status ongoing and leaves every
\* other Job record as it was.
C5_FreshIdOngoing ==
    [][(resp'.op = "request" /\ resp'.job # NoneStr) =>
          \A c \in Cookies, u \in SubmissionInputs, id \in JobIds, st \in BOOLEAN :
              Request(c, u, id, st)
                  => /\ resp'.job \notin (DOMAIN jobs \cup DOMAIN workers)
                     /\ resp'.job \in DOMAIN jobs'
                     /\ jobs'[resp'.job].status = "ongoing"
                     /\ \A i \in DOMAIN jobs : jobs'[i] = jobs[i]]_vars

\* C5 witness: a second job id has been answered after an earlier job ended.
C5_Witness ==
    /\ resp.op = "request"
    /\ resp.job \in DOMAIN jobs
    /\ jobs[resp.job].status = "ongoing"
    /\ \E id \in DOMAIN jobs : id # resp.job /\ jobs[id].status \in Terminal

\* C6: every job whose record was written eventually has a terminal status,
\* every started worker being scheduled until it ends.
C6_EveryJobEnds ==
    \A id \in JobIds :
        [](id \in DOMAIN jobs => <>(id \in DOMAIN jobs /\ jobs[id].status \in Terminal))

StatusOf(id) == IF id \in DOMAIN jobs THEN jobs[id].status ELSE "absent"

\* C7: a job's status is written only by POST /request, as ongoing when it
\* creates the record, and by the job's own running worker, from ongoing to a
\* terminal status; no other step changes it, so a terminal status stays.
C7_OnlyWorkerWritesStatus ==
    [][\A id \in JobIds :
          StatusOf(id)' # StatusOf(id)
              => \/ /\ StatusOf(id) = "absent"
                    /\ StatusOf(id)' = "ongoing"
                    /\ \E c \in Cookies, u \in SubmissionInputs, st \in BOOLEAN :
                          Request(c, u, id, st)
                 \/ /\ StatusOf(id) = "ongoing"
                    /\ StatusOf(id)' \in Terminal
                    /\ Alive(id)
                    /\ \E o \in Terminal, r \in FailureReasons :
                          WorkerFinish(id, o, r)]_vars

\* C7 witness: a job has ended and has since been polled, while a session is
\* authenticated and a sweep and a recalibration have run.
C7_Witness ==
    /\ "j1" \in DOMAIN jobs
    /\ jobs["j1"].status \in Terminal
    /\ seen["j1"].status = jobs["j1"].status
    /\ read_token("c1") # NoneStr
    /\ sweep.pc = "done"
    /\ recal.pc = "done"
    /\ resp.op = "download"

\* C8: when a sweep has ended, every file it listed that was older than the
\* threshold is gone, but for the one file whose stat or removal failed.
C8_SweepDeletesAllOld ==
    sweep.pc \in {"done", "raised"} =>
        \A k \in DOMAIN sweep.files :
            LET file == sweep.files[k]
            IN  (files[file] # None /\ (sweep.now - files[file]) > Retention)
                    => (sweep.pc = "raised" /\ k = sweep.i)

\* C9: while there is no successful job to average over, and whenever the
\* last Datastore average was null or none was computed yet, the shared
\* average is the default 30.
C9_DefaultWithoutHistory ==
    (History = {} \/ (recal.pc # "write" /\ recal.fetched = None))
        => average = DefaultAverage

\* C9 witness: a recalibration has run and found no history, a job having
\* failed before it.
C9_Witness ==
    /\ recal.pc = "done"
    /\ recal.fetched = None
    /\ \E id \in DOMAIN jobs : jobs[id].status = "failure"
    /\ average = DefaultAverage

\* C10: a GetStatus call answers with the payload computed from one value of
\* the shared average, a value the scalar held during the call, never None.
C10_StatusReadsOneValue ==
    [][(poll.pc = "eta" /\ poll'.pc = "done")
          => \E a \in poll.held :
                /\ a # None
                /\ seen'[poll.id] = status(poll.job, a, now)]_vars

\* C10 witness: a GetStatus call has answered an estimate after the
\* recalibration changed the shared average during the call.
C10_Witness ==
    /\ poll.pc = "done"
    /\ Cardinality(poll.held) = 2
    /\ seen[poll.id].avg \in poll.held
    /\ seen[poll.id].eta.kind \in {"late", "lt10", "secs", "mins"}

\* C11: a sweep removes a file only when the file's age, at the time the
\* sweep sampled, exceeds 86400 seconds, and when a sweep ends, no file it
\* listed whose age exceeds 86400 seconds is left.
C11_SweepDeletesExactlyOld ==
    [][/\ \A id \in JobIds :
             (files[id] # None /\ files'[id] = None)
                 => (sweep.now - files[id]) > Retention
       /\ (sweep.pc = "loop" /\ sweep'.pc \in {"done", "raised"})
             => \A k \in DOMAIN sweep'.files :
                   LET file == sweep'.files[k]
                   IN  files'[file] # None
                          => ~((sweep'.now - files'[file]) > Retention)]_vars

\* C12: the estimate GetStatus answers is null when nb_replies is unknown;
\* otherwise, under a positive throughput, it is the message the policy names
\* for remaining = nb_replies / throughput - elapsed: "longer than expected"
\* exactly when remaining < 0, "less than 10 seconds" exactly when
\* 0 <= remaining < 10, seconds when 10 <= remaining < 60, minutes and
\* seconds when remaining >= 60.  The comparisons are scaled by throughput.
C12_EstimateFollowsPolicy ==
    [][(poll.pc = "eta" /\ poll'.pc = "done" /\ average >= 1)
          => LET job == poll.job
                 eta == seen'[poll.id].eta
                 scaled == job.nb_replies - (now - job.started_at) * average
             IN  IF job.nb_replies = None
                 THEN eta.kind = "none"
                 ELSE eta.kind = (IF scaled < 0 THEN "late"
                                  ELSE IF scaled < 10 * average THEN "lt10"
                                  ELSE IF scaled < 60 * average THEN "secs"
                                  ELSE "mins")]_vars

\* C13: GetStatus answers the code its mapping gives the status of the Job
\* record it read (409 ongoing, 404 failure, 200 success, 404 notfound), and
\* the payload's status is the record's status.
C13_StatusCodeMapping ==
    [][(poll.pc = "eta" /\ poll'.pc = "done")
          => /\ seen'[poll.id].status = poll.job.status
             /\ seen'[poll.id].code = status_code(poll.job.status)
             /\ resp'.code = status_code(poll.job.status)]_vars

\* C14: a callback that passes the state check and whose exchange raises
\* (no code, a code the provider rejects) is answered 400 ExchangeFailed
\* after exactly one call of get_refresh_token, and every session's stored
\* refresh token is as it was.
C14_FailedExchangeStoresNothing ==
    [][resp'.op = "token" =>
          \A c \in RequestCookies, k \in Codes, ok \in BOOLEAN :
              (/\ get_refresh_token(k, ok) \in {"ValueError", "OAuthException"}
               /\ Token(c, c, k, ok))
                  => /\ resp'.code = 400
                     /\ resp'.detail = "ExchangeFailed"
                     /\ resp'.calls = 1
                     /\ tokens' = tokens]_vars

\* C14 witness: an exchange has failed, leaving one session unauthenticated
\* while another holds a refresh token.
C14_Witness ==
    /\ resp = Response("token", 400, "ExchangeFailed", NoneStr, 1)
    /\ read_token("c1") = NoneStr
    /\ read_token("c2") # NoneStr

C16_StatusIsPureRead ==
    [][poll'.pc # poll.pc
          => /\ jobs' = jobs
             /\ tokens' = tokens
             /\ average' = average]_vars

\* C16 witness: a poll has answered for a running job of an authenticated
\* session, used a day before, while a recalibration is about to write.
C16_Witness ==
    /\ poll.pc = "done"
    /\ poll.id = "j1"
    /\ seen["j1"].status = "ongoing"
    /\ Alive("j1")
    /\ read_token("c1") # NoneStr
    /\ tokens["c1"].last_used < now
    /\ recal.pc = "write"

\* C17: a session that holds a refresh token holds one after every step.
C17_AuthenticatedStays ==
    [][\A c \in Cookies :
          read_token(c) # NoneStr => read_token(c)' # NoneStr]_vars

\* C17, amended: a session that holds a refresh token holds one after every
\* step but a run of the session-expiry task that finds the session unused
\* for more than three months.
C17_AuthenticatedUntilExpiry ==
    [][\A c \in Cookies :
          (read_token(c) # NoneStr /\ read_token(c)' = NoneStr)
              => /\ now - tokens[c].last_used > Quarter
                 /\ CleanupSessions]_vars

\* C17 witness: the session that requested a job with its refresh token has
\* been expired, while the other session, used since, is still authenticated
\* after a failed callback.
C17_Witness ==
    /\ \E id \in DOMAIN workers :
          /\ workers[id].token = RefreshToken
          /\ jobs[id].requestor = "c1"
    /\ read_token("c1") = NoneStr
    /\ read_token("c2") # NoneStr
    /\ now > Quarter
    /\ resp = Response("token", 400, "ExchangeFailed", NoneStr, 1)

\* C18: a POST /request that answers a job id has started one worker, for
\* that id, which had none; the worker is running when the answer is given,
\* its Job record is stored with status ongoing, and the other workers are as
\* they were.  A POST /request that answers no id has started no worker, and
\* every started worker has a Job record.
C18_OneWorkerPerAnsweredId ==
    [][resp'.op = "request" =>
          \A c \in Cookies, u \in SubmissionInputs, id \in JobIds, st \in BOOLEAN :
              Request(c, u, id, st)
                  => /\ resp'.job # NoneStr
                          => /\ resp'.job \notin DOMAIN workers
                             /\ DOMAIN workers' = DOMAIN workers \cup {resp'.job}
                             /\ workers'[resp'.job].alive
                             /\ jobs'[resp'.job].status = "ongoing"
                             /\ \A w \in DOMAIN workers : workers'[w] = workers[w]
                     /\ resp'.job = NoneStr => workers' = workers
                     /\ DOMAIN workers' \subseteq DOMAIN jobs']_vars

\* C18 witness: a job id has been answered whose worker is running with the
\* session's refresh token, while the worker of another job has ended.
C18_Witness ==
    /\ resp.op = "request"
    /\ resp.job \in DOMAIN workers
    /\ workers[resp.job] = [token |-> RefreshToken, alive |-> TRUE]
    /\ \E w \in DOMAIN workers : ~workers[w].alive

\* C19: for a job id that has no Job record, the last answer GetStatus gave
\* is not the status ongoing and not the code 409: it is the "not found"
\* answer, 404 with status notfound, if the id was polled at all.
C19_UnknownIdNeverOngoing ==
    \A id \in JobIds :
        id \notin DOMAIN jobs
            => /\ seen[id].status # "ongoing"
               /\ seen[id].code # 409
               /\ seen[id] # Unseen
                     => (seen[id].status = "notfound" /\ seen[id].code = 404)
               /\ (resp.op = "status" /\ resp.job = id) => resp.code = 404

\* C19 witness: an unknown id has been polled and answered notfound while
\* another job is reported ongoing and the shared average has been
\* recalibrated to zero.
C19_Witness ==
    /\ "j2" \notin DOMAIN jobs
    /\ seen["j2"].status = "notfound"
    /\ seen["j2"].avg = 0
    /\ seen["j1"].status = "ongoing"
    /\ resp = Response("status", 404, "notfound", "j2", 0)

\* C20: every Job whose status is success has a filename, and the output
\* directory holds a file of that name.
C20_SuccessHasArtifact ==
    \A id \in DOMAIN jobs :
        jobs[id].status = "success"
            => /\ jobs[id].filename # NoneStr
               /\ files[jobs[id].filename] # None

\* C21: the shared average is a strictly positive integer in every state,
\* whatever averages the Datastore returned to the recalibrations.
C21_AveragePositive ==
    average # None /\ average >= 1

\* C22: no refresh token is stored under the absent cookie: a callback that
\* carries no session cookie and no state never gets one persisted.
C22_NoTokenWithoutCookie ==
    read_token(NoneStr) = NoneStr

====
